---- MODULE Spec2Model ----
(***************************************************************************)
(* Data-access layer of the email research bot:                            *)
(*   - the connection manager (createSupabaseConnection: initialize,       *)
(*     getClient, closeConnection) that memoizes one storage client;       *)
(*   - the record operations (query builders, getEmailById, ...) and the   *)
(*     error wrapper withErrorHandling.                                    *)
(* Spec    drives the connection manager.                                  *)
(* SpecOps applies the record operations to bounded inputs and store       *)
(*         responses.                                                      *)
(* SpecLife drives the manager together with createDatabaseOperations()    *)
(*         instances and the operations run through them.                  *)
(* SpecAll interleaves the manager's calls with sequences of record        *)
(*         operation calls.                                                *)
(* SpecConc runs several record operations at once, each suspended at its  *)
(*         await until the store replies; SpecConcLive adds the fairness   *)
(*         of the event loop.                                              *)
(* SpecPair drives the class-based manager (class SupabaseConnection) in   *)
(*         step with the closure-based one.                                *)
(***************************************************************************)
EXTENDS Integers, Sequences, FiniteSets, TLC

VARIABLES
    envUrl,      \* process.env.SUPABASE_URL
    envKey,      \* process.env.SUPABASE_ANON_KEY
    client,      \* the closure variable `client` (NoClient = null)
    created,     \* the clients createClient has returned, in order: <<url, key>> each
    ctorCalls,   \* number of createClient invocations so far
    last,        \* the last connection-manager call: its inputs and outcome
    span,        \* what happened since the last closeConnection()
    opIn,        \* the record operation to run: its argument and the store's reply
    opCall,      \* the last record operation: its inputs, issued request, outcome
    instHandles, \* the clients captured by the createDatabaseOperations() instances
    used,        \* the last operation run through an instance: the client it ran against
    inflight,    \* the record operations started and not yet forgotten, one per call
    instance,    \* SupabaseConnection.instance (0 = undefined), an index into objects
    objects,     \* the SupabaseConnection objects constructed: the `client` field of each
    clsCreated,  \* the clients createClient has returned to the class, in order
    clsLast      \* the last call made on the class-based manager and its outcome

vars == <<envUrl, envKey, client, created, ctorCalls, last, span, opIn, opCall,
          instHandles, used, inflight, instance, objects, clsCreated, clsLast>>

lifeVars == <<instHandles, used>>

callVars == <<inflight>>

classVars == <<instance, objects, clsCreated, clsLast>>

connVars == <<envUrl, envKey, client, created, ctorCalls, last, span, opIn, instHandles, used,
              inflight, classVars>>

----------------------------------------------------------------------------
(* Bounds *)

MaxCtorCalls == 3

MaxSpanCount == 2

----------------------------------------------------------------------------
(* Values *)

\* JavaScript `undefined` for an environment variable
Undef == "<undefined>"

\* null for the memoized client
NoClient == 0

EnvUrls == {Undef, "", "https://a.supabase.co", "https://b.supabase.co"}

EnvKeys == {Undef, "", "anon-key"}

\* !x for a string-or-undefined value
Falsy(x) == x = Undef \/ x = ""

\* An error value that is not a DatabaseError (oid stands for object identity)
PlainError(oid, code) ==
    [dbe |-> FALSE, type |-> "", msg |-> "", oid |-> oid, code |-> code, orig |-> {}]

\* new DatabaseError(type, message, originalError); originalError is {} when omitted
DatabaseError(type, message, originalError) ==
    [dbe |-> TRUE, type |-> type, msg |-> message, oid |-> 0, code |-> "",
     orig |-> originalError]

CONNECTION_ERROR == "CONNECTION_ERROR"

QUERY_ERROR == "QUERY_ERROR"

VALIDATION_ERROR == "VALIDATION_ERROR"

NOT_FOUND == "NOT_FOUND"

DatabaseErrorType == {CONNECTION_ERROR, QUERY_ERROR, VALIDATION_ERROR, NOT_FOUND}

\* What the client constructor may throw
CtorErrors == {PlainError(91, "ERR_INVALID_URL"), PlainError(92, "")}

\* createClient(url, key): either returns a new client or throws
CreateClient(url, key) ==
    {[threw |-> FALSE, err |-> {}]} \cup {[threw |-> TRUE, err |-> {e}] : e \in CtorErrors}

\* Outcome of a connection-manager call
Returned(h) == [kind |-> "return", handle |-> h, err |-> {}]

Threw(e) == [kind |-> "throw", handle |-> NoClient, err |-> {e}]

Void == [kind |-> "void", handle |-> NoClient, err |-> {}]

\* Tag of a finished call, remembered as the `prev` of the next one
Tag(l) == IF l.op = "none" THEN "none"
          ELSE IF l.op = "closeConnection" THEN "closeConnection"
          ELSE IF l.out.kind = "return" THEN l.op \o ":ok" ELSE l.op \o ":err"

Bump(n) == IF n < MaxSpanCount THEN n + 1 ELSE n

----------------------------------------------------------------------------
(* Initial state: module load, createSupabaseConnection() has run *)

NoCall == [op |-> "none", prev |-> "none", pre |-> NoClient, url |-> Undef, key |-> Undef,
           wasClosed |-> FALSE, ctor |-> "notcalled", thrown |-> {}, out |-> Void]

NoSpan == [handles |-> {}, ctor |-> 0, ok |-> 0, closed |-> FALSE, closedHandle |-> NoClient,
           everInit |-> FALSE, lastInit |-> NoClient]

NoOpCall == [op |-> "none"]

NoUse == [handle |-> NoClient, mgr |-> NoClient]

NoClassCall == [op |-> "none", out |-> Void]

Init ==
    /\ envUrl \in EnvUrls
    /\ envKey \in EnvKeys
    /\ client = NoClient
    /\ created = <<>>
    /\ ctorCalls = 0
    /\ last = NoCall
    /\ span = NoSpan
    /\ opIn = NoOpCall
    /\ opCall = NoOpCall
    /\ instHandles = {}
    /\ used = NoUse
    /\ inflight = <<>>
    /\ instance = 0
    /\ objects = <<>>
    /\ clsCreated = <<>>
    /\ clsLast = NoClassCall

----------------------------------------------------------------------------
(* Connection manager *)

\* The host (or a test) changes the configuration in process.env
setEnv ==
    /\ \E u \in EnvUrls, k \in EnvKeys :
          /\ <<u, k>> # <<envUrl, envKey>>
          /\ envUrl' = u
          /\ envKey' = k
    /\ UNCHANGED <<client, created, ctorCalls, last, span, opIn, opCall>>

\* The record of a connection-manager call made in the current state
CallRecord(op, ctor, thrown, out) ==
    [op |-> op, prev |-> Tag(last), pre |-> client, url |-> envUrl, key |-> envKey,
     wasClosed |-> span.closed, ctor |-> ctor, thrown |-> thrown, out |-> out]

\* Bookkeeping of an initialize() call that ended with outcome out after
\* invoking the constructor n times
SpanAfterInit(out, n) ==
    LET ok == out.kind = "return" IN
    [span EXCEPT
       !.handles  = IF ok THEN @ \cup {out.handle} ELSE @,
       !.ctor     = IF ok \/ span.ok > 0
                    THEN (IF @ + n > MaxSpanCount THEN MaxSpanCount ELSE @ + n)
                    ELSE @,
       !.ok       = IF ok THEN Bump(@) ELSE @,
       !.closed   = IF ok THEN FALSE ELSE @,
       !.everInit = TRUE,
       !.lastInit = IF ok THEN out.handle ELSE @]

\* if (client) { return client; }
InitReturnMemo ==
    /\ last' = CallRecord("initialize", "notcalled", {}, Returned(client))
    /\ span' = SpanAfterInit(Returned(client), 0)
    /\ UNCHANGED <<envUrl, envKey, client, created, ctorCalls, opIn, opCall>>

\* if (!url || !key) { throw new DatabaseError(CONNECTION_ERROR, ...) }
InitThrowMissing ==
    LET out == Threw(DatabaseError(CONNECTION_ERROR,
                      "Missing Supabase credentials in environment variables", {}))
    IN
    /\ last' = CallRecord("initialize", "notcalled", {}, out)
    /\ span' = SpanAfterInit(out, 0)
    /\ UNCHANGED <<envUrl, envKey, client, created, ctorCalls, opIn, opCall>>

\* The constructor returned: client = createClient(url, key); return client;
InitConstructed ==
    LET h == Len(created) + 1 IN
    /\ created' = Append(created, <<envUrl, envKey>>)
    /\ client' = h
    /\ ctorCalls' = ctorCalls + 1
    /\ last' = CallRecord("initialize", "returned", {}, Returned(h))
    /\ span' = SpanAfterInit(Returned(h), 1)
    /\ UNCHANGED <<envUrl, envKey, opIn, opCall>>

\* Mutant: the constructor's exception escapes unwrapped
InitCtorThrew_Unwrapped(thrown) ==
    LET out == [kind |-> "throw", handle |-> NoClient, err |-> thrown] IN
    /\ last' = CallRecord("initialize", "threw", thrown, out)
    /\ span' = SpanAfterInit(out, 1)
    /\ ctorCalls' = ctorCalls + 1
    /\ UNCHANGED <<envUrl, envKey, client, created, opIn, opCall>>

\* The constructor threw: catch (error) { throw new DatabaseError(CONNECTION_ERROR, ..., error) }
InitCtorThrew(thrown) ==
    LET out == Threw(DatabaseError(CONNECTION_ERROR,
                      "Failed to initialize Supabase client", thrown))
    IN
    /\ last' = CallRecord("initialize", "threw", thrown, out)
    /\ span' = SpanAfterInit(out, 1)
    /\ ctorCalls' = ctorCalls + 1
    /\ UNCHANGED <<envUrl, envKey, client, created, opIn, opCall>>

\* try { client = createClient(url, key); return client; } catch (error) { ... }
InitConstruct ==
    /\ ctorCalls < MaxCtorCalls
    /\ \E r \in CreateClient(envUrl, envKey) :
          IF r.threw THEN InitCtorThrew(r.err) ELSE InitConstructed

\* Mutant: the memoization test is missing, every call constructs
initialize_NoMemo ==
    IF Falsy(envUrl) \/ Falsy(envKey) THEN InitThrowMissing ELSE InitConstruct

\* Mutant: only the URL is validated
initialize_UrlOnly ==
    IF client # NoClient THEN InitReturnMemo
    ELSE IF Falsy(envUrl) THEN InitThrowMissing
    ELSE InitConstruct

\* Mutant: the configuration is validated before the memoized client is looked at
initialize_ConfigFirst ==
    IF Falsy(envUrl) \/ Falsy(envKey) THEN InitThrowMissing
    ELSE IF client # NoClient THEN InitReturnMemo
    ELSE InitConstruct

initialize ==
    IF client # NoClient THEN InitReturnMemo
    ELSE IF Falsy(envUrl) \/ Falsy(envKey) THEN InitThrowMissing
    ELSE InitConstruct

\* Mutant: getClient() constructs the client when there is none
getClient_Lazy ==
    IF client = NoClient /\ ~Falsy(envUrl) /\ ~Falsy(envKey) /\ ctorCalls < MaxCtorCalls
    THEN LET h == Len(created) + 1 IN
         /\ created' = Append(created, <<envUrl, envKey>>)
         /\ client' = h
         /\ ctorCalls' = ctorCalls + 1
         /\ last' = CallRecord("getClient", "returned", {}, Returned(h))
         /\ UNCHANGED <<envUrl, envKey, span, opIn, opCall>>
    ELSE /\ last' = CallRecord("getClient", "notcalled", {},
                       IF client = NoClient
                       THEN Threw(DatabaseError(CONNECTION_ERROR,
                               "Supabase client not initialized. Call initialize() first.", {}))
                       ELSE Returned(client))
         /\ UNCHANGED <<envUrl, envKey, client, created, ctorCalls, span, opIn, opCall>>

\* Mutant: the null test is missing
getClient_NoCheck ==
    /\ last' = CallRecord("getClient", "notcalled", {}, Returned(client))
    /\ UNCHANGED <<envUrl, envKey, client, created, ctorCalls, span, opIn, opCall>>

getClient ==
    LET out == IF client = NoClient
               THEN Threw(DatabaseError(CONNECTION_ERROR,
                          "Supabase client not initialized. Call initialize() first.", {}))
               ELSE Returned(client)
    IN
    /\ last' = CallRecord("getClient", "notcalled", {}, out)
    /\ UNCHANGED <<envUrl, envKey, client, created, ctorCalls, span, opIn, opCall>>

\* What closeConnection() records about the span it ends
SpanAfterClose ==
    [span EXCEPT !.handles = {}, !.ctor = 0, !.ok = 0, !.closed = TRUE,
                 !.closedHandle = IF client # NoClient THEN client ELSE @]

\* Mutant: the memoized client is not cleared
closeConnection_NoClear ==
    /\ last' = CallRecord("closeConnection", "notcalled", {}, Void)
    /\ span' = SpanAfterClose
    /\ UNCHANGED <<envUrl, envKey, client, created, ctorCalls, opIn, opCall>>

closeConnection ==
    /\ client' = NoClient
    /\ last' = CallRecord("closeConnection", "notcalled", {}, Void)
    /\ span' = SpanAfterClose
    /\ UNCHANGED <<envUrl, envKey, created, ctorCalls, opIn, opCall>>

----------------------------------------------------------------------------
(* Record operations: values *)

\* An optional field is the empty set when absent and {v} when present
Val(opt) == CHOOSE v \in opt : TRUE

\* JavaScript truthiness of an optional string / number
TruthyStr(opt) == opt # {} /\ Val(opt) # ""

TruthyNum(opt) == opt # {} /\ Val(opt) # 0

\* (filter.limit || 10)
DefaultPageSize == 10

\* Date values are milliseconds since the epoch; InvalidDate is new Date(NaN)
InvalidDate == -1

Dates == {0, 86400000, InvalidDate}

\* Date.prototype.toISOString (throws RangeError on an invalid date)
ToISOString(d) ==
    CASE d = 0 -> "1970-01-01T00:00:00.000Z"
      [] d = 86400000 -> "1970-01-02T00:00:00.000Z"

RangeError == PlainError(31, "RangeError")

\* One call on the storage client's fluent query builder
BuilderCall(m, col, str, n1, n2, flag, arr) ==
    [m |-> m, col |-> col, s |-> str, n |-> n1, n2 |-> n2, b |-> flag, arr |-> arr]

From(table) == BuilderCall("from", "", table, 0, 0, FALSE, <<>>)

Select(cols) == BuilderCall("select", "", cols, 0, 0, FALSE, <<>>)

Ilike(col, pattern) == BuilderCall("ilike", col, pattern, 0, 0, FALSE, <<>>)

Gte(col, v) == BuilderCall("gte", col, v, 0, 0, FALSE, <<>>)

Lte(col, v) == BuilderCall("lte", col, v, 0, 0, FALSE, <<>>)

EqBool(col, v) == BuilderCall("eq", col, "", 0, 0, v, <<>>)

EqStr(col, v) == BuilderCall("eq", col, v, 0, 0, FALSE, <<>>)

Contains(col, arr) == BuilderCall("contains", col, "", 0, 0, FALSE, arr)

Limit(n) == BuilderCall("limit", "", "", n, 0, FALSE, <<>>)

Range(from, to) == BuilderCall("range", "", "", from, to, FALSE, <<>>)

Single == BuilderCall("single", "", "", 0, 0, FALSE, <<>>)

Insert(rows) == BuilderCall("insert", "", "", 0, 0, FALSE, rows)

\* EmailFilter / LinkFilter values the operations are applied to
EmailFilters ==
    [sender : {{}, {""}, {"test"}},
     subject : {{}, {"Re"}},
     dateFrom : {{}, {0}, {InvalidDate}},
     dateTo : {{}, {86400000}},
     processed : {{}, {TRUE}, {FALSE}},
     limit : {{}, {0}, {3}, {10}},
     offset : {{}, {0}, {1}, {5}}]

LinkFilters ==
    [url : {{}, {""}, {"example.com"}},
     categories : {{}, {<<>>}, {<<"news">>}},
     emailId : {{}, {""}, {"e1"}},
     limit : {{}, {0}, {3}, {10}},
     offset : {{}, {0}, {1}, {5}}]

Ids == {"e1", "e2"}

\* Omit<Email, 'id' | 'created_at'> values handed to createEmail
EmailInputs ==
    {[sender |-> "a@example.com", subject |-> "Hello", date |-> 0, body_text |-> {"text"},
      body_html |-> {}, attachment_info |-> {}, processed |-> FALSE],
     [sender |-> "b@example.com", subject |-> "", date |-> 86400000, body_text |-> {},
      body_html |-> {"<p>x</p>"},
      attachment_info |-> {<<[filename |-> "a.pdf", mime_type |-> "application/pdf",
                              size |-> 7]>>},
      processed |-> TRUE]}

\* Omit<Link, 'id' | 'created_at'> values handed to createLink
LinkInputs ==
    {[url |-> "https://example.com", anchor_text |-> {"Example"},
      surrounding_context |-> {}, categories |-> <<"news">>, email_id |-> "e1"],
     [url |-> "https://example.org/x", anchor_text |-> {},
      surrounding_context |-> {"see x"}, categories |-> <<>>, email_id |-> "e2"]}

\* The columns the store assigns on insert (DEFAULT uuid_generate_v4(), DEFAULT NOW())
StoreAssigned ==
    {[id |-> "uuid-1", created_at |-> 1000, updated_at |-> 1000],
     [id |-> "uuid-2", created_at |-> 2000, updated_at |-> 2000]}

\* The row the store inserts and returns for an inserted record
InsertedRow(record, assigned) ==
    [f \in DOMAIN record \cup DOMAIN assigned |->
        IF f \in DOMAIN assigned THEN assigned[f] ELSE record[f]]

\* Error objects the store reports in { data, error }
StoreErrors == {PlainError(11, "PGRST116"), PlainError(12, "23505"), PlainError(13, "")}

\* Values the storage client rejects with (e.g. a failed fetch)
ClientThrows == {PlainError(21, "")}

Resolve(data, error) == [kind |-> "resolve", data |-> data, error |-> error, thrown |-> {}]

Reject(e) == [kind |-> "reject", data |-> {}, error |-> {}, thrown |-> {e}]

\* The rows of a table, named by their position in it
StoredRows == 1..4

\* The rows of S in table order
RowSeq(S) ==
    CHOOSE q \in [1..Cardinality(S) -> S] :
        \A i, j \in 1..Cardinality(S) : i < j => q[i] < q[j]

\* Store replies to a list query: data is null ({}) or an array of rows
ListResponses ==
    {Resolve(d, {}) : d \in {{}} \cup {{RowSeq(S)} : S \in SUBSET StoredRows}}
       \cup {Resolve({}, {e}) : e \in StoreErrors}
       \cup {Reject(e) : e \in ClientThrows}

\* Store replies to insert(...).select().single(): the assigned columns of the
\* inserted row, or an error
InsertResponses ==
    {Resolve({a}, {}) : a \in StoreAssigned}
       \cup {Resolve({}, {e}) : e \in StoreErrors}
       \cup {Reject(e) : e \in ClientThrows}

\* Store replies to a .single() query: data is null ({}) or one row
SingleResponses ==
    {Resolve(d, {}) : d \in {{}, {1}, {2}}}
       \cup {Resolve({}, {e}) : e \in StoreErrors}
       \cup {Reject(e) : e \in ClientThrows}

\* Outcome of an operation: a returned array, a returned row-or-null, or a throw
\* (shape tells the returned array from a returned row and from null)
ReturnRows(rows) ==
    [kind |-> "return", shape |-> "array", rows |-> rows, row |-> {}, err |-> {}]

ReturnRow(row) ==
    [kind |-> "return", shape |-> IF row = {} THEN "null" ELSE "row",
     rows |-> <<>>, row |-> row, err |-> {}]

Throw(e) == [kind |-> "throw", shape |-> "none", rows |-> <<>>, row |-> {}, err |-> {e}]

----------------------------------------------------------------------------
(* Record operations *)

\* Mutant: every caught error is wrapped, DatabaseError or not
WithErrorHandling_AlwaysWrap(inner, errorMessage) ==
    IF inner.kind = "throw"
    THEN Throw(DatabaseError(QUERY_ERROR, errorMessage, inner.err))
    ELSE inner

\* withErrorHandling(operation, errorMessage) applied to the outcome of operation(client)
WithErrorHandling(inner, errorMessage) ==
    IF inner.kind = "throw"
    THEN IF Val(inner.err).dbe
         THEN inner
         ELSE Throw(DatabaseError(QUERY_ERROR, errorMessage, inner.err))
    ELSE inner

\* Mutant: the processed test compares with null instead of undefined
BuildEmailQuery_NullTest(filter) ==
    LET q0 == <<From("emails"), Select("*")>>
        q5 == Append(q0, EqBool("processed", filter.processed = {TRUE}))
        q6 == IF TruthyNum(filter.limit) THEN Append(q5, Limit(Val(filter.limit))) ELSE q5
        q7 == IF TruthyNum(filter.offset)
              THEN Append(q6, Range(Val(filter.offset),
                      Val(filter.offset)
                        + (IF TruthyNum(filter.limit) THEN Val(filter.limit) ELSE DefaultPageSize)
                        - 1))
              ELSE q6
    IN [calls |-> q7, threw |-> {}]

\* Mutant: the window always spans the default page size, whatever the limit
BuildEmailQuery_FixedWindow(filter) ==
    LET q0 == <<From("emails"), Select("*")>>
        q1 == IF TruthyStr(filter.sender)
              THEN Append(q0, Ilike("sender", "%" \o Val(filter.sender) \o "%"))
              ELSE q0
        q2 == IF TruthyStr(filter.subject)
              THEN Append(q1, Ilike("subject", "%" \o Val(filter.subject) \o "%"))
              ELSE q1
        badFrom == filter.dateFrom # {} /\ Val(filter.dateFrom) = InvalidDate
        q3 == IF filter.dateFrom # {} /\ ~badFrom
              THEN Append(q2, Gte("date", ToISOString(Val(filter.dateFrom))))
              ELSE q2
        badTo == filter.dateTo # {} /\ Val(filter.dateTo) = InvalidDate
        q4 == IF filter.dateTo # {} /\ ~badTo
              THEN Append(q3, Lte("date", ToISOString(Val(filter.dateTo))))
              ELSE q3
        q5 == IF filter.processed # {}
              THEN Append(q4, EqBool("processed", Val(filter.processed)))
              ELSE q4
        q6 == IF TruthyNum(filter.limit) THEN Append(q5, Limit(Val(filter.limit))) ELSE q5
        q7 == IF TruthyNum(filter.offset)
              THEN Append(q6, Range(Val(filter.offset),
                      Val(filter.offset)
                        + DefaultPageSize
                        - 1))
              ELSE q6
    IN  IF badFrom THEN [calls |-> q2, threw |-> {RangeError}]
        ELSE IF badTo THEN [calls |-> q3, threw |-> {RangeError}]
        ELSE [calls |-> q7, threw |-> {}]

\* buildEmailQuery(client, filter): the builder calls made, and what it threw
BuildEmailQuery(filter) ==
    LET q0 == <<From("emails"), Select("*")>>
        q1 == IF TruthyStr(filter.sender)
              THEN Append(q0, Ilike("sender", "%" \o Val(filter.sender) \o "%"))
              ELSE q0
        q2 == IF TruthyStr(filter.subject)
              THEN Append(q1, Ilike("subject", "%" \o Val(filter.subject) \o "%"))
              ELSE q1
        badFrom == filter.dateFrom # {} /\ Val(filter.dateFrom) = InvalidDate
        q3 == IF filter.dateFrom # {} /\ ~badFrom
              THEN Append(q2, Gte("date", ToISOString(Val(filter.dateFrom))))
              ELSE q2
        badTo == filter.dateTo # {} /\ Val(filter.dateTo) = InvalidDate
        q4 == IF filter.dateTo # {} /\ ~badTo
              THEN Append(q3, Lte("date", ToISOString(Val(filter.dateTo))))
              ELSE q3
        q5 == IF filter.processed # {}
              THEN Append(q4, EqBool("processed", Val(filter.processed)))
              ELSE q4
        q6 == IF TruthyNum(filter.limit) THEN Append(q5, Limit(Val(filter.limit))) ELSE q5
        q7 == IF TruthyNum(filter.offset)
              THEN Append(q6, Range(Val(filter.offset),
                      Val(filter.offset)
                        + (IF TruthyNum(filter.limit) THEN Val(filter.limit) ELSE DefaultPageSize)
                        - 1))
              ELSE q6
    IN  IF badFrom THEN [calls |-> q2, threw |-> {RangeError}]
        ELSE IF badTo THEN [calls |-> q3, threw |-> {RangeError}]
        ELSE [calls |-> q7, threw |-> {}]

\* Mutant: the email_id equality is applied before the categories containment
BuildLinkQuery_EqFirst(filter) ==
    LET q0 == <<From("links"), Select("*")>>
        q1 == IF TruthyStr(filter.url)
              THEN Append(q0, Ilike("url", "%" \o Val(filter.url) \o "%"))
              ELSE q0
        q2 == IF TruthyStr(filter.emailId)
              THEN Append(q1, EqStr("email_id", Val(filter.emailId)))
              ELSE q1
        q3 == IF filter.categories # {} /\ Len(Val(filter.categories)) > 0
              THEN Append(q2, Contains("categories", Val(filter.categories)))
              ELSE q2
        q4 == IF TruthyNum(filter.limit) THEN Append(q3, Limit(Val(filter.limit))) ELSE q3
        q5 == IF TruthyNum(filter.offset)
              THEN Append(q4, Range(Val(filter.offset),
                      Val(filter.offset)
                        + (IF TruthyNum(filter.limit) THEN Val(filter.limit) ELSE DefaultPageSize)
                        - 1))
              ELSE q4
    IN [calls |-> q5, threw |-> {}]

\* buildLinkQuery(client, filter)
BuildLinkQuery(filter) ==
    LET q0 == <<From("links"), Select("*")>>
        q1 == IF TruthyStr(filter.url)
              THEN Append(q0, Ilike("url", "%" \o Val(filter.url) \o "%"))
              ELSE q0
        q2 == IF filter.categories # {} /\ Len(Val(filter.categories)) > 0
              THEN Append(q1, Contains("categories", Val(filter.categories)))
              ELSE q1
        q3 == IF TruthyStr(filter.emailId)
              THEN Append(q2, EqStr("email_id", Val(filter.emailId)))
              ELSE q2
        q4 == IF TruthyNum(filter.limit) THEN Append(q3, Limit(Val(filter.limit))) ELSE q3
        q5 == IF TruthyNum(filter.offset)
              THEN Append(q4, Range(Val(filter.offset),
                      Val(filter.offset)
                        + (IF TruthyNum(filter.limit) THEN Val(filter.limit) ELSE DefaultPageSize)
                        - 1))
              ELSE q4
    IN [calls |-> q5, threw |-> {}]

\* Mutant: the no-row code is taken for an empty result by the list operations too
ListOutcome_NoRowIsEmpty(built, resp, errorMessage) ==
    IF built.threw # {} THEN Throw(Val(built.threw))
    ELSE IF resp.kind = "reject" THEN Throw(Val(resp.thrown))
    ELSE IF resp.error # {}
         THEN IF Val(resp.error).code = "PGRST116"
              THEN ReturnRows(<<>>)
              ELSE Throw(DatabaseError(QUERY_ERROR, errorMessage, resp.error))
    ELSE IF resp.data = {} THEN ReturnRows(<<>>)
    ELSE ReturnRows(Val(resp.data))

\* Mutant: data is returned as it is, null included
ListOutcome_NoDefault(built, resp, errorMessage) ==
    IF built.threw # {} THEN Throw(Val(built.threw))
    ELSE IF resp.kind = "reject" THEN Throw(Val(resp.thrown))
    ELSE IF resp.error # {} THEN Throw(DatabaseError(QUERY_ERROR, errorMessage, resp.error))
    ELSE IF resp.data = {} THEN ReturnRow({})
    ELSE ReturnRows(Val(resp.data))

\* const { data, error } = await query; if (error) throw QUERY_ERROR; return data || []
ListOutcome(built, resp, errorMessage) ==
    IF built.threw # {} THEN Throw(Val(built.threw))
    ELSE IF resp.kind = "reject" THEN Throw(Val(resp.thrown))
    ELSE IF resp.error # {} THEN Throw(DatabaseError(QUERY_ERROR, errorMessage, resp.error))
    ELSE IF resp.data = {} THEN ReturnRows(<<>>)
    ELSE ReturnRows(Val(resp.data))

\* The record of one record-operation call
OpRecord(op, arg, built, resp, out) ==
    [op |-> op, arg |-> arg, req |-> built.calls, executed |-> built.threw = {},
     resp |-> resp, out |-> out]

queryEmails ==
    /\ opIn.op = "queryEmails"
    /\ opCall = NoOpCall
    /\ LET filter == opIn.arg
           resp == opIn.resp
           built == BuildEmailQuery(filter)
       IN opCall' = OpRecord("queryEmails", filter, built, resp,
                       WithErrorHandling(ListOutcome(built, resp, "Failed to query emails"),
                                         "Failed to query emails"))
    /\ UNCHANGED connVars

queryLinks ==
    /\ opIn.op = "queryLinks"
    /\ opCall = NoOpCall
    /\ LET filter == opIn.arg
           resp == opIn.resp
           built == BuildLinkQuery(filter)
       IN opCall' = OpRecord("queryLinks", filter, built, resp,
                       WithErrorHandling(ListOutcome(built, resp, "Failed to query links"),
                                         "Failed to query links"))
    /\ UNCHANGED connVars

\* Mutant: the no-row code is not told apart from other store errors
GetEmailByIdOutcome_NoRowIsError(resp) ==
    IF resp.kind = "reject" THEN Throw(Val(resp.thrown))
    ELSE IF resp.error # {}
         THEN Throw(DatabaseError(QUERY_ERROR, "Failed to get email", resp.error))
    ELSE ReturnRow(resp.data)

\* Mutant: the no-row code raises the reserved NOT_FOUND instead of returning null
GetEmailByIdOutcome_NotFound(resp) ==
    IF resp.kind = "reject" THEN Throw(Val(resp.thrown))
    ELSE IF resp.error # {}
         THEN IF Val(resp.error).code = "PGRST116"
              THEN Throw(DatabaseError(NOT_FOUND, "Failed to get email", resp.error))
              ELSE Throw(DatabaseError(QUERY_ERROR, "Failed to get email", resp.error))
    ELSE ReturnRow(resp.data)

\* The body of getEmailById after the await
GetEmailByIdOutcome(resp) ==
    IF resp.kind = "reject" THEN Throw(Val(resp.thrown))
    ELSE IF resp.error # {}
         THEN IF Val(resp.error).code = "PGRST116"
              THEN ReturnRow({})
              ELSE Throw(DatabaseError(QUERY_ERROR, "Failed to get email", resp.error))
    ELSE ReturnRow(resp.data)

getEmailById ==
    /\ opIn.op = "getEmailById"
    /\ opCall = NoOpCall
    /\ LET id == opIn.arg
           resp == opIn.resp
           built == [calls |-> <<From("emails"), Select("*"), EqStr("id", id), Single>>,
                     threw |-> {}]
       IN opCall' = OpRecord("getEmailById", id, built, resp,
                       WithErrorHandling(GetEmailByIdOutcome(resp), "Failed to get email"))
    /\ UNCHANGED connVars

\* Mutant: the links are matched on their own id
GetLinksByEmailIdRequest_OwnId(emailId) ==
    [calls |-> <<From("links"), Select("*"), EqStr("id", emailId)>>, threw |-> {}]

\* client.from('links').select('*').eq('email_id', emailId)
GetLinksByEmailIdRequest(emailId) ==
    [calls |-> <<From("links"), Select("*"), EqStr("email_id", emailId)>>, threw |-> {}]

getLinksByEmailId ==
    /\ opIn.op = "getLinksByEmailId"
    /\ opCall = NoOpCall
    /\ LET emailId == opIn.arg
           resp == opIn.resp
           built == GetLinksByEmailIdRequest(emailId)
       IN opCall' = OpRecord("getLinksByEmailId", emailId, built, resp,
                       WithErrorHandling(ListOutcome(built, resp, "Failed to get links"),
                                         "Failed to get links"))
    /\ UNCHANGED connVars

\* client.from('emails').insert([email]).select().single()
CreateEmailRequest(email) ==
    [calls |-> <<From("emails"), Insert(<<email>>), Select(""), Single>>, threw |-> {}]

\* Mutant: createLink inserts into the emails table
CreateLinkRequest_WrongTable(link) ==
    [calls |-> <<From("emails"), Insert(<<link>>), Select(""), Single>>, threw |-> {}]

\* client.from('links').insert([link]).select().single()
CreateLinkRequest(link) ==
    [calls |-> <<From("links"), Insert(<<link>>), Select(""), Single>>, threw |-> {}]

\* What the store answers to an insert request: the inserted rows of the
\* request with the assigned columns (.single() needs exactly one row)
StoreInsertReply(calls, resp) ==
    IF resp.kind = "resolve" /\ resp.error = {} /\ resp.data # {}
    THEN IF Len(calls[2].arr) = 1
         THEN Resolve({InsertedRow(calls[2].arr[1], Val(resp.data))}, {})
         ELSE Resolve({}, {PlainError(11, "PGRST116")})
    ELSE resp

\* Mutant: a store error is swallowed and data (null) is returned
CreateOutcome_SwallowError(resp, errorMessage) ==
    IF resp.kind = "reject" THEN Throw(Val(resp.thrown))
    ELSE ReturnRow(resp.data)

\* The body of createEmail / createLink after the await
CreateOutcome(resp, errorMessage) ==
    IF resp.kind = "reject" THEN Throw(Val(resp.thrown))
    ELSE IF resp.error # {} THEN Throw(DatabaseError(QUERY_ERROR, errorMessage, resp.error))
    ELSE ReturnRow(resp.data)

createEmail ==
    /\ opIn.op = "createEmail"
    /\ opCall = NoOpCall
    /\ LET email == opIn.arg
           built == CreateEmailRequest(email)
           resp == StoreInsertReply(built.calls, opIn.resp)
       IN opCall' = OpRecord("createEmail", email, built, resp,
                       WithErrorHandling(CreateOutcome(resp, "Failed to create email record"),
                                         "Failed to create email record"))
    /\ UNCHANGED connVars

createLink ==
    /\ opIn.op = "createLink"
    /\ opCall = NoOpCall
    /\ LET link == opIn.arg
           built == CreateLinkRequest(link)
           resp == StoreInsertReply(built.calls, opIn.resp)
       IN opCall' = OpRecord("createLink", link, built, resp,
                       WithErrorHandling(CreateOutcome(resp, "Failed to create link record"),
                                         "Failed to create link record"))
    /\ UNCHANGED connVars

NextOps ==
    \/ createEmail
    \/ createLink
    \/ queryEmails
    \/ queryLinks
    \/ getEmailById
    \/ getLinksByEmailId

\* The calls the record operations are applied to, with the store's reply to each
OpInputs ==
    [op : {"queryEmails"}, arg : EmailFilters, resp : ListResponses]
       \cup [op : {"queryLinks"}, arg : LinkFilters, resp : ListResponses]
       \cup [op : {"getEmailById"}, arg : Ids, resp : SingleResponses]
       \cup [op : {"getLinksByEmailId"}, arg : Ids, resp : ListResponses]
       \cup [op : {"createEmail"}, arg : EmailInputs, resp : InsertResponses]
       \cup [op : {"createLink"}, arg : LinkInputs, resp : InsertResponses]

InitOps ==
    /\ envUrl = Undef
    /\ envKey = Undef
    /\ client = NoClient
    /\ created = <<>>
    /\ ctorCalls = 0
    /\ last = NoCall
    /\ span = NoSpan
    /\ opIn \in OpInputs
    /\ opCall = NoOpCall
    /\ instHandles = {}
    /\ used = NoUse
    /\ inflight = <<>>
    /\ instance = 0
    /\ objects = <<>>
    /\ clsCreated = <<>>
    /\ clsLast = NoClassCall

SpecOps == InitOps /\ [][NextOps]_vars

Next ==
    \/ setEnv /\ UNCHANGED <<lifeVars, callVars, classVars>>
    \/ initialize /\ UNCHANGED <<lifeVars, callVars, classVars>>
    \/ getClient /\ UNCHANGED <<lifeVars, callVars, classVars>>
    \/ closeConnection /\ UNCHANGED <<lifeVars, callVars, classVars>>

Spec == Init /\ [][Next]_vars

----------------------------------------------------------------------------
(* Connection manager and record operations, called one after the other *)

\* The calls a caller makes one after the other, with the store's reply to each
CallInputs ==
    [op : {"queryEmails"},
     arg : {f \in EmailFilters :
               /\ \A k \in DOMAIN f \ {"dateFrom"} : f[k] = {}
               /\ f.dateFrom # {0}},
     resp : {r \in ListResponses :
                (r.kind = "resolve" /\ r.error = {}) => r.data = {<<1, 2>>}}]
       \cup [op : {"queryLinks"},
             arg : {f \in LinkFilters : \A k \in DOMAIN f : f[k] = {}},
             resp : {r \in ListResponses :
                        (r.kind = "resolve" /\ r.error = {}) => r.data = {}}]
       \cup [op : {"getEmailById"}, arg : {"e1"}, resp : SingleResponses]
       \cup [op : {"getLinksByEmailId"}, arg : {"e2"},
             resp : {r \in ListResponses :
                        (r.kind = "resolve" /\ r.error = {}) => r.data = {<<3>>}}]
       \cup [op : {"createEmail"}, arg : {e \in EmailInputs : ~e.processed},
             resp : InsertResponses]
       \cup [op : {"createLink"}, arg : {l \in LinkInputs : l.email_id = "e1"},
             resp : InsertResponses]

\* The configurations the calls are made under
InitAll ==
    /\ Init
    /\ envUrl \in {Undef, "https://a.supabase.co"}
    /\ envKey \in {"", "anon-key"}

\* A caller holding a client invokes a record operation with it, e.g.
\* queryEmails(filter)(client), once its previous call has settled
callOperation ==
    /\ Len(created) > 0
    /\ opIn = NoOpCall \/ opCall # NoOpCall
    /\ opIn' \in CallInputs
    /\ opCall' = NoOpCall
    /\ UNCHANGED <<envUrl, envKey, client, created, ctorCalls, last, span, lifeVars, callVars, classVars>>

NextAll ==
    \/ initialize /\ UNCHANGED <<lifeVars, callVars, classVars>>
    \/ getClient /\ UNCHANGED <<lifeVars, callVars, classVars>>
    \/ closeConnection /\ UNCHANGED <<lifeVars, callVars, classVars>>
    \/ callOperation
    \/ NextOps

SpecAll == InitAll /\ [][NextAll]_vars

----------------------------------------------------------------------------
(* Operations instances: createDatabaseOperations binds every record
   operation to one client *)

\* createDatabaseOperations(): the default parameter calls
\* supabaseConnection.initialize() and the returned object closes over its result
CreateOperationsDefault ==
    /\ initialize
    /\ instHandles' = IF last'.out.kind = "return"
                      THEN instHandles \cup {last'.out.handle}
                      ELSE instHandles
    /\ used' = used
    /\ UNCHANGED <<callVars, classVars>>

\* createDatabaseOperations(client) with a client the caller obtained earlier
CreateOperationsExplicit ==
    /\ \E h \in 1..Len(created) : instHandles' = instHandles \cup {h}
    /\ UNCHANGED <<envUrl, envKey, client, created, ctorCalls, last, span, opIn, opCall, used,
                   callVars, classVars>>

createDatabaseOperations ==
    \/ CreateOperationsDefault
    \/ CreateOperationsExplicit

\* A call of one of the instance's operations, e.g. queryEmails(filter)(client):
\* it runs against the client the instance closed over
instanceOperation ==
    /\ \E h \in instHandles : used' = [handle |-> h, mgr |-> client]
    /\ UNCHANGED <<envUrl, envKey, client, created, ctorCalls, last, span, opIn, opCall,
                   instHandles, callVars, classVars>>

NextLife ==
    \/ initialize /\ UNCHANGED <<lifeVars, callVars, classVars>>
    \/ getClient /\ UNCHANGED <<lifeVars, callVars, classVars>>
    \/ closeConnection /\ UNCHANGED <<lifeVars, callVars, classVars>>
    \/ createDatabaseOperations
    \/ instanceOperation

SpecLife == Init /\ [][NextLife]_vars

----------------------------------------------------------------------------
(* Record operations in flight: each call is an async function that runs to
   its await, is suspended until the store replies, and is resumed *)

MaxCalls == 2

\* The operations called concurrently, and the replies the store may give
ConcInputs ==
    [op : {"queryEmails"},
     arg : {f \in EmailFilters :
               /\ \A k \in DOMAIN f \ {"dateFrom"} : f[k] = {}
               /\ f.dateFrom # {0}}]
       \cup [op : {"queryLinks"}, arg : {f \in LinkFilters : \A k \in DOMAIN f : f[k] = {}}]
       \cup [op : {"getEmailById", "getLinksByEmailId"}, arg : {"e1"}]
       \cup [op : {"createEmail"}, arg : {e \in EmailInputs : ~e.processed}]
       \cup [op : {"createLink"}, arg : {l \in LinkInputs : l.email_id = "e1"}]

ConcReplies(op) ==
    {Resolve({}, {PlainError(11, "PGRST116")})} \cup {Reject(e) : e \in ClientThrows}
       \cup (CASE op \in {"queryEmails", "queryLinks", "getLinksByEmailId"}
                    -> {Resolve({<<1, 2>>}, {})}
               [] op = "getEmailById" -> {Resolve({1}, {})}
               [] OTHER -> {Resolve({a}, {}) : a \in {b \in StoreAssigned : b.id = "uuid-1"}})

\* The errorMessage each operation hands to withErrorHandling
ErrorMessage(op) ==
    CASE op = "createEmail" -> "Failed to create email record"
      [] op = "createLink" -> "Failed to create link record"
      [] op = "queryEmails" -> "Failed to query emails"
      [] op = "queryLinks" -> "Failed to query links"
      [] op = "getEmailById" -> "Failed to get email"
      [] op = "getLinksByEmailId" -> "Failed to get links"

\* The synchronous part of operation(client): the request built before the await
RequestOf(op, arg) ==
    CASE op = "createEmail" -> CreateEmailRequest(arg)
      [] op = "createLink" -> CreateLinkRequest(arg)
      [] op = "queryEmails" -> BuildEmailQuery(arg)
      [] op = "queryLinks" -> BuildLinkQuery(arg)
      [] op = "getEmailById" ->
            [calls |-> <<From("emails"), Select("*"), EqStr("id", arg), Single>>, threw |-> {}]
      [] op = "getLinksByEmailId" -> GetLinksByEmailIdRequest(arg)

\* What the resumed call settles with: the rest of operation(client) after the
\* await, inside the try/catch of withErrorHandling
OutcomeOf(c, resp) ==
    LET built == [calls |-> c.req, threw |-> c.thrown]
        msg == ErrorMessage(c.op)
        inner == CASE c.op \in {"queryEmails", "queryLinks", "getLinksByEmailId"}
                        -> ListOutcome(built, Val(resp), msg)
                   [] c.op = "getEmailById"
                        -> IF built.threw # {} THEN Throw(Val(built.threw))
                           ELSE GetEmailByIdOutcome(Val(resp))
                   [] OTHER
                        -> IF built.threw # {} THEN Throw(Val(built.threw))
                           ELSE CreateOutcome(Val(resp), msg)
    IN WithErrorHandling(inner, msg)

\* The manager is READY and createDatabaseOperations() has returned an instance
InitConc ==
    /\ envUrl = "https://a.supabase.co"
    /\ envKey = "anon-key"
    /\ client = 1
    /\ created = <<(<<envUrl, envKey>>)>>
    /\ ctorCalls = 1
    /\ last = [NoCall EXCEPT !.op = "initialize", !.url = envUrl, !.key = envKey,
                             !.ctor = "returned", !.out = Returned(1)]
    /\ span = [NoSpan EXCEPT !.handles = {1}, !.ctor = 1, !.ok = 1, !.everInit = TRUE,
                             !.lastInit = 1]
    /\ opIn = NoOpCall
    /\ opCall = NoOpCall
    /\ instHandles = {1}
    /\ used = NoUse
    /\ inflight = <<>>
    /\ instance = 0
    /\ objects = <<>>
    /\ clsCreated = <<>>
    /\ clsLast = NoClassCall

\* A call of one of the instance's operations: it runs to its await, where the
\* request goes to the store; if building the request throws, none is sent
\* and the promise of operation(client) is rejected
startOperation ==
    /\ Len(inflight) < MaxCalls
    /\ \E in \in ConcInputs, h \in instHandles :
          LET built == RequestOf(in.op, in.arg)
              sent == built.threw = {}
          IN inflight' = Append(inflight,
                 [st |-> IF sent THEN "awaiting" ELSE "resumable",
                  op |-> in.op, arg |-> in.arg, handle |-> h,
                  req |-> built.calls, thrown |-> built.threw,
                  requests |-> IF sent THEN 1 ELSE 0,
                  resp |-> {}, out |-> {}])
    /\ UNCHANGED <<envUrl, envKey, client, created, ctorCalls, last, span, opIn, opCall,
                   lifeVars, classVars>>

\* The store replies to the request of call k
storeResponds(k) ==
    /\ k \in 1..Len(inflight)
    /\ inflight[k].st = "awaiting"
    /\ \E r \in ConcReplies(inflight[k].op) :
          inflight' = [inflight EXCEPT
                          ![k].resp = {IF inflight[k].op \in {"createEmail", "createLink"}
                                       THEN StoreInsertReply(inflight[k].req, r)
                                       ELSE r},
                          ![k].st = "resumable"]
    /\ UNCHANGED <<envUrl, envKey, client, created, ctorCalls, last, span, opIn, opCall,
                   lifeVars, classVars>>

\* Mutant: the reply is read from a buffer shared by the calls (the latest reply)
resumeOperation_SharedReply(k) ==
    /\ k \in 1..Len(inflight)
    /\ inflight[k].st = "resumable"
    /\ LET replied == {j \in 1..Len(inflight) : inflight[j].resp # {}}
           latest == IF replied = {} THEN {}
                     ELSE inflight[CHOOSE j \in replied : \A i \in replied : i <= j].resp
       IN inflight' = [inflight EXCEPT ![k].out = {OutcomeOf(inflight[k], latest)},
                                       ![k].st = "done"]
    /\ UNCHANGED <<envUrl, envKey, client, created, ctorCalls, last, span, opIn, opCall,
                   lifeVars, classVars>>

\* Mutant: a failed call sends its request once more before giving up
resumeOperation_Retry(k) ==
    /\ k \in 1..Len(inflight)
    /\ inflight[k].st = "resumable"
    /\ LET out == OutcomeOf(inflight[k], inflight[k].resp) IN
       IF out.kind = "throw" /\ inflight[k].thrown = {} /\ inflight[k].requests < 2
       THEN inflight' = [inflight EXCEPT ![k].requests = @ + 1, ![k].resp = {},
                                         ![k].st = "awaiting"]
       ELSE inflight' = [inflight EXCEPT ![k].out = {out}, ![k].st = "done"]
    /\ UNCHANGED <<envUrl, envKey, client, created, ctorCalls, last, span, opIn, opCall,
                   lifeVars, classVars>>

\* Call k is resumed after its await (or its rejection) and settles
resumeOperation(k) ==
    /\ k \in 1..Len(inflight)
    /\ inflight[k].st = "resumable"
    /\ inflight' = [inflight EXCEPT ![k].out = {OutcomeOf(inflight[k], inflight[k].resp)},
                                    ![k].st = "done"]
    /\ UNCHANGED <<envUrl, envKey, client, created, ctorCalls, last, span, opIn, opCall,
                   lifeVars, classVars>>

NextConc ==
    \/ startOperation
    \/ \E k \in 1..MaxCalls : storeResponds(k)
    \/ \E k \in 1..MaxCalls : resumeOperation(k)

SpecConc == InitConc /\ [][NextConc]_vars

\* The event loop runs every continuation that is ready
SpecConcLive == SpecConc /\ \A k \in 1..MaxCalls : WF_vars(resumeOperation(k))

----------------------------------------------------------------------------
(* The class-based connection manager (class SupabaseConnection), driven in
   step with the closure-based one *)

\* Mutant: getInstance() constructs a new object on every call
getInstance_AlwaysNew ==
    [instance |-> Len(objects) + 1, objects |-> Append(objects, NoClient)]

\* SupabaseConnection.getInstance(): the static instance and the objects after it
getInstance ==
    IF instance = 0
    THEN [instance |-> Len(objects) + 1, objects |-> Append(objects, NoClient)]
    ELSE [instance |-> instance, objects |-> objects]

\* SupabaseConnection.getInstance().initialize(), ctor being what createClient
\* does if it is called
ClassInitialize(ctor) ==
    LET got == getInstance
        this == got.instance
        h == Len(clsCreated) + 1
    IN
    /\ instance' = this
    /\ IF got.objects[this] # NoClient
       THEN /\ clsLast' = [op |-> "initialize", out |-> Returned(got.objects[this])]
            /\ objects' = got.objects
            /\ clsCreated' = clsCreated
       ELSE IF Falsy(envUrl) \/ Falsy(envKey)
       THEN /\ clsLast' = [op |-> "initialize",
                           out |-> Threw(DatabaseError(CONNECTION_ERROR,
                                     "Missing Supabase credentials in environment variables",
                                     {}))]
            /\ objects' = got.objects
            /\ clsCreated' = clsCreated
       ELSE IF ctor.threw
       THEN /\ clsLast' = [op |-> "initialize",
                           out |-> Threw(DatabaseError(CONNECTION_ERROR,
                                     "Failed to initialize Supabase client", ctor.err))]
            /\ objects' = got.objects
            /\ clsCreated' = clsCreated
       ELSE /\ clsCreated' = Append(clsCreated, <<envUrl, envKey>>)
            /\ objects' = [got.objects EXCEPT ![this] = h]
            /\ clsLast' = [op |-> "initialize", out |-> Returned(h)]

\* SupabaseConnection.getInstance().getClient()
ClassGetClient ==
    LET got == getInstance
        this == got.instance
    IN
    /\ instance' = this
    /\ objects' = got.objects
    /\ clsCreated' = clsCreated
    /\ clsLast' = [op |-> "getClient",
                   out |-> IF got.objects[this] = NoClient
                           THEN Threw(DatabaseError(CONNECTION_ERROR,
                                   "Supabase client not initialized. Call initialize() first.",
                                   {}))
                           ELSE Returned(got.objects[this])]

\* SupabaseConnection.getInstance().closeConnection()
ClassCloseConnection ==
    LET got == getInstance
        this == got.instance
    IN
    /\ instance' = this
    /\ objects' = [got.objects EXCEPT ![this] = NoClient]
    /\ clsCreated' = clsCreated
    /\ clsLast' = [op |-> "closeConnection", out |-> Void]

\* What createClient did in the step of the closure-based manager, for the
\* class-based manager to meet the same: any outcome if it was not called
SameCtor ==
    IF last'.ctor = "threw" THEN {[threw |-> TRUE, err |-> last'.thrown]}
    ELSE IF last'.ctor = "returned" THEN {[threw |-> FALSE, err |-> {}]}
    ELSE CreateClient(envUrl, envKey)

\* The same call on both managers, under the same configuration
bothInitialize ==
    /\ initialize
    /\ \E ctor \in SameCtor : ClassInitialize(ctor)
    /\ UNCHANGED <<lifeVars, callVars>>

bothGetClient ==
    /\ getClient
    /\ ClassGetClient
    /\ UNCHANGED <<lifeVars, callVars>>

bothCloseConnection ==
    /\ closeConnection
    /\ ClassCloseConnection
    /\ UNCHANGED <<lifeVars, callVars>>

NextPair ==
    \/ setEnv /\ UNCHANGED <<lifeVars, callVars, classVars>>
    \/ bothInitialize
    \/ bothGetClient
    \/ bothCloseConnection

SpecPair == Init /\ [][NextPair]_vars

----------------------------------------------------------------------------
(* Connection manager: properties *)

IsConnectionError(out) ==
    /\ out.kind = "throw"
    /\ \A e \in out.err : e.dbe /\ e.type = CONNECTION_ERROR
    /\ out.err # {}

\* C1: two successful initialize() calls with no closeConnection() between
\* them return the identical handle, and the client is constructed exactly
\* once in that span: the later call does not invoke the constructor.
C1_MemoizedSingleton ==
    /\ Cardinality(span.handles) <= 1
    /\ span.ok >= 1 => span.ctor = 1
    /\ (last.op = "initialize" /\ last.out.kind = "return" /\ span.ok >= 2)
          => /\ last.ctor = "notcalled"
             /\ last.out.handle = last.pre
             /\ span.handles = {last.out.handle}

C1_Witness ==
    /\ last.op = "initialize"
    /\ last.out.kind = "return"
    /\ span.ok >= 2
    /\ last.prev = "initialize:ok"

\* C2: in UNINITIALIZED, initialize() with SUPABASE_URL or SUPABASE_ANON_KEY
\* absent or empty fails with CONNECTION_ERROR and does not invoke the
\* client constructor in that call.
C2_MissingConfigFailsBeforeConstruction ==
    (last.op = "initialize" /\ last.pre = NoClient /\ (Falsy(last.url) \/ Falsy(last.key)))
       => /\ IsConnectionError(last.out)
          /\ last.ctor = "notcalled"
          /\ client = NoClient

C2_Witness ==
    /\ last.op = "initialize"
    /\ last.pre = NoClient
    /\ ~Falsy(last.url)
    /\ last.key = Undef
    /\ IsConnectionError(last.out)

\* C3: a failed initialize() (missing configuration, or the constructor
\* throwing, wrapped as CONNECTION_ERROR with the thrown error as
\* originalError) leaves the manager UNINITIALIZED: the handle is still null,
\* a following getClient() fails with CONNECTION_ERROR and a later
\* initialize() attempts construction again.
C3_FailedInitializeStaysUninitialized ==
    /\ (last.op = "initialize" /\ last.out.kind = "throw")
          => /\ client = NoClient
             /\ IsConnectionError(last.out)
             /\ last.ctor = "threw" =>
                   \A e \in last.out.err : e.orig = last.thrown /\ last.thrown # {}
             /\ last.ctor # "threw" => Falsy(last.url) \/ Falsy(last.key)
    /\ (last.prev = "initialize:err" /\ last.op = "getClient")
          => IsConnectionError(last.out)
    /\ (last.prev = "initialize:err" /\ last.op = "initialize"
          /\ ~Falsy(last.url) /\ ~Falsy(last.key))
          => last.ctor # "notcalled"

C3_Witness ==
    /\ last.prev = "initialize:err"
    /\ last.op = "initialize"
    /\ last.ctor = "returned"
    /\ last.out.kind = "return"

\* C4: getClient() returns the memoized handle (the one the last successful
\* initialize() returned) when the manager is READY, fails with
\* CONNECTION_ERROR if initialize() was never called, and never constructs a
\* handle or changes the memoized one.
C4_GetClient ==
    /\ [](last.op = "getClient" =>
            /\ last.pre # NoClient =>
                  last.out = Returned(last.pre) /\ last.out.handle = span.lastInit
            /\ ~span.everInit => IsConnectionError(last.out)
            /\ last.pre = NoClient => IsConnectionError(last.out))
    /\ [][getClient => UNCHANGED <<client, created, ctorCalls>>]_vars

C4_Witness ==
    /\ last.op = "getClient"
    /\ last.pre # NoClient
    /\ last.out.kind = "return"
    /\ last.prev = "initialize:ok"

\* C5: closeConnection() clears the memoized handle: afterwards getClient()
\* fails with CONNECTION_ERROR until initialize() succeeds again, and the next
\* successful initialize() invokes the constructor again with the
\* configuration of that moment instead of returning the old handle.
C5_CloseForcesReconstruction ==
    /\ span.closed => client = NoClient
    /\ last.op = "closeConnection" => span.closed
    /\ (last.op = "getClient" /\ last.wasClosed) => IsConnectionError(last.out)
    /\ (last.op = "initialize" /\ last.wasClosed /\ last.out.kind = "return")
          => /\ last.ctor = "returned"
             /\ last.out.handle # span.closedHandle
             /\ created[last.out.handle] = <<last.url, last.key>>
             /\ client = last.out.handle

C5_Witness ==
    /\ last.op = "initialize"
    /\ last.wasClosed
    /\ last.out.kind = "return"
    /\ span.closedHandle # NoClient
    /\ created[last.out.handle] # created[span.closedHandle]

\* C26: once the manager is READY, initialize() returns the memoized handle
\* whatever the configuration is at that moment: a removed or changed
\* SUPABASE_URL / SUPABASE_ANON_KEY causes no CONNECTION_ERROR, no construction
\* and no change of the handle; the configuration is read only by an
\* initialize() in UNINITIALIZED (the first one after a close included), whose
\* handle is built from the configuration of that moment.
C26_ReadyIgnoresConfiguration ==
    /\ (last.op = "initialize" /\ last.pre # NoClient)
          => /\ last.out = Returned(last.pre)
             /\ last.ctor = "notcalled"
             /\ client = last.pre
    /\ (last.op = "initialize" /\ last.pre = NoClient)
          => /\ last.out.kind = "return"
                   => /\ created[last.out.handle] = <<last.url, last.key>>
                      /\ last.out.handle = Len(created)
             /\ (Falsy(last.url) \/ Falsy(last.key)) => IsConnectionError(last.out)
    /\ client # NoClient => ~Falsy(created[client][1]) /\ ~Falsy(created[client][2])

C26_Witness ==
    /\ last.op = "initialize"
    /\ last.pre # NoClient
    /\ Falsy(last.key)
    /\ last.url # created[last.pre][1]
    /\ last.out.kind = "return"
    /\ span.closedHandle # NoClient

\* C27: the class-based manager reached through getInstance() and the
\* closure-based manager are observationally equivalent. Driven by the same
\* calls under the same configuration and constructor outcomes, every call
\* has the same outcome on both (the same handle, counted in construction
\* order and built from the same configuration, or the same CONNECTION_ERROR),
\* both are in the same state after it, and getInstance() has constructed one
\* object only.
C27_ManagersEquivalent ==
    /\ clsLast.op = last.op
    /\ clsLast.out = last.out
    /\ clsCreated = created
    /\ client = (IF instance = 0 THEN NoClient ELSE objects[instance])
    /\ Len(objects) <= 1
    /\ last.op # "none" => instance = 1

C27_Witness ==
    /\ last.op = "initialize"
    /\ last.prev = "initialize:err"
    /\ last.wasClosed
    /\ last.out = Returned(2)
    /\ clsLast.out = Returned(2)
    /\ objects[instance] = 2
    /\ clsCreated[2] # clsCreated[1]

----------------------------------------------------------------------------
(* Record operations: properties *)

IsQueryMany == opCall.op \in {"queryEmails", "queryLinks"}

HasCall(c) == \E i \in 1..Len(opCall.req) : opCall.req[i] = c

CallsOf(m) == {i \in 1..Len(opCall.req) : opCall.req[i].m = m}

\* effectiveLimit of the specification: limit if given, else 10
EffectiveLimit(filter) == IF filter.limit # {} THEN Val(filter.limit) ELSE DefaultPageSize

\* C6 (as claimed): whenever offset is present, offset = 0 included, queryMany
\* requests the range [offset, offset + effectiveLimit - 1]; the scenario
\* filter {sender:"test", processed:true, limit:10, offset:0} issues exactly
\* ilike(sender), eq(processed, true), limit(10), range(0, 9).
C6_RangeWheneverOffsetPresent ==
    /\ (IsQueryMany /\ opCall.executed /\ opCall.arg.offset # {})
          => HasCall(Range(Val(opCall.arg.offset),
                           Val(opCall.arg.offset) + EffectiveLimit(opCall.arg) - 1))
    /\ (opCall.op = "queryEmails"
          /\ opCall.arg = [sender |-> {"test"}, subject |-> {}, dateFrom |-> {}, dateTo |-> {},
                           processed |-> {TRUE}, limit |-> {10}, offset |-> {0}])
          => opCall.req = <<From("emails"), Select("*"), Ilike("sender", "%test%"),
                            EqBool("processed", TRUE), Limit(10), Range(0, 9)>>

\* C7 (as claimed): with offset present and limit absent the requested range
\* is [offset, offset + 9]; with both present the requested range has exactly
\* limit rows.
C7_DefaultPageSizeTen ==
    (IsQueryMany /\ opCall.executed /\ opCall.arg.offset # {})
       => /\ opCall.arg.limit = {} =>
                HasCall(Range(Val(opCall.arg.offset), Val(opCall.arg.offset) + 9))
          /\ opCall.arg.limit # {} =>
                \E i \in CallsOf("range") :
                    opCall.req[i].n2 - opCall.req[i].n + 1 = Val(opCall.arg.limit)

AllAbsent(filter) == \A f \in DOMAIN filter : filter[f] = {}

\* C8: a filter with every optional field absent issues no predicate on top
\* of the base select, and queryMany returns the rows of the store's reply
\* unchanged (a null result set being no rows).
C8_EmptyFilterIssuesNoPredicate ==
    (IsQueryMany /\ AllAbsent(opCall.arg))
       => /\ opCall.executed
          /\ opCall.req = <<From(IF opCall.op = "queryEmails" THEN "emails" ELSE "links"),
                            Select("*")>>
          /\ (opCall.resp.kind = "resolve" /\ opCall.resp.error = {})
                => /\ opCall.out.kind = "return"
                   /\ opCall.resp.data # {} => opCall.out.rows = Val(opCall.resp.data)
                   /\ opCall.resp.data = {} => opCall.out.rows = <<>>

C8_Witness ==
    /\ opCall.op = "queryEmails"
    /\ AllAbsent(opCall.arg)
    /\ opCall.out.kind = "return"
    /\ opCall.out.rows = <<1, 2>>

\* C9: getEmailById returns null and does not raise when the store reports
\* the no-row code PGRST116; when the store returns a row and no error it
\* returns that row; the request is one equality predicate on id with the
\* requested id.
C9_GetByIdNoRowIsNull ==
    opCall.op = "getEmailById"
       => /\ opCall.req = <<From("emails"), Select("*"), EqStr("id", opCall.arg), Single>>
          /\ Cardinality(CallsOf("eq")) = 1
          /\ (opCall.resp.kind = "resolve" /\ opCall.resp.error # {}
                /\ Val(opCall.resp.error).code = "PGRST116")
                => opCall.out = ReturnRow({})
          /\ (opCall.resp.kind = "resolve" /\ opCall.resp.error = {} /\ opCall.resp.data # {})
                => opCall.out = ReturnRow(opCall.resp.data)

C9_Witness ==
    /\ opCall.op = "getEmailById"
    /\ opCall.resp.kind = "resolve"
    /\ opCall.resp.error # {}
    /\ Val(opCall.resp.error).code = "PGRST116"
    /\ opCall.out.kind = "return"
    /\ opCall.out.row = {}

\* C10: for getById and queryMany every store error, except the no-row code
\* on getById, raises a DatabaseError of type QUERY_ERROR whose originalError
\* is the error object the store reported.
C10_StoreErrorIsQueryError ==
    (/\ opCall.op \in {"getEmailById", "queryEmails", "queryLinks"}
     /\ opCall.executed
     /\ opCall.resp.kind = "resolve"
     /\ opCall.resp.error # {}
     /\ ~(opCall.op = "getEmailById" /\ Val(opCall.resp.error).code = "PGRST116"))
       => /\ opCall.out.kind = "throw"
          /\ \A e \in opCall.out.err :
                /\ e.dbe
                /\ e.type = QUERY_ERROR
                /\ e.orig = opCall.resp.error
                /\ \A o \in e.orig : ~o.dbe
          /\ opCall.out.err # {}

C10_Witness ==
    /\ opCall.op = "queryEmails"
    /\ opCall.executed
    /\ opCall.resp.kind = "resolve"
    /\ opCall.resp.error # {}
    /\ Val(opCall.resp.error).code = "PGRST116"
    /\ opCall.out.kind = "throw"

C12_ListNeverNull ==
    opCall.op \in {"queryEmails", "queryLinks", "getLinksByEmailId"}
       => /\ opCall.out.kind = "return" => opCall.out.shape = "array"
          /\ (opCall.executed /\ opCall.resp.kind = "resolve" /\ opCall.resp.error = {}
                /\ opCall.resp.data = {})
                => opCall.out = ReturnRows(<<>>)

C12_Witness ==
    /\ opCall.op = "getLinksByEmailId"
    /\ opCall.resp.kind = "resolve"
    /\ opCall.resp.error = {}
    /\ opCall.resp.data = {}
    /\ opCall.out.kind = "return"

IsCreate == opCall.op \in {"createEmail", "createLink"}

\* C13: when the store reports an error on an insert, create raises a
\* DatabaseError of type QUERY_ERROR carrying the store's error, returns no
\* record, and has sent one insert request only.
C13_CreateErrorNoRetry ==
    IsCreate
       => /\ Cardinality(CallsOf("insert")) = 1
          /\ Len(opCall.req) = 4
          /\ (opCall.resp.kind = "resolve" /\ opCall.resp.error # {})
                => /\ opCall.out.kind = "throw"
                   /\ opCall.out.row = {}
                   /\ opCall.out.err # {}
                   /\ \A e \in opCall.out.err :
                         e.dbe /\ e.type = QUERY_ERROR /\ e.orig = opCall.resp.error

C13_Witness ==
    /\ opCall.op = "createEmail"
    /\ opCall.resp.kind = "resolve"
    /\ opCall.resp.error # {}
    /\ Val(opCall.resp.error).code = "23505"
    /\ opCall.out.kind = "throw"

\* C14: no double wrapping. Whatever a record operation raises is one
\* DatabaseError of type QUERY_ERROR: the one thrown inside the operation for a
\* reported store error (its originalError still the store's error), or the
\* single wrapper of a non-DatabaseError thrown by the storage client or the
\* query builder (its originalError the thrown value); an originalError is
\* never a DatabaseError.
C14_NoDoubleWrap ==
    (opCall.op # "none" /\ opCall.out.kind = "throw")
       => /\ Cardinality(opCall.out.err) = 1
          /\ \A e \in opCall.out.err :
                /\ e.dbe
                /\ e.type = QUERY_ERROR
                /\ \A o \in e.orig : ~o.dbe
                /\ ~opCall.executed => e.orig = {RangeError}
                /\ (opCall.executed /\ opCall.resp.kind = "reject")
                      => e.orig = opCall.resp.thrown
                /\ (opCall.executed /\ opCall.resp.kind = "resolve")
                      => e.orig = opCall.resp.error /\ opCall.resp.error # {}

C14_Witness ==
    /\ opCall.op = "queryLinks"
    /\ opCall.resp.kind = "reject"
    /\ opCall.out.kind = "throw"
    /\ \A e \in opCall.out.err : e.orig = opCall.resp.thrown

\* C17: getLinksByEmailId issues one predicate, an equality on email_id with
\* the given id, against the links table; it returns the store's rows
\* unchanged (the empty array when there are none) and raises QUERY_ERROR with
\* the store's error on every store error, the no-row code included.
C17_GetLinksByEmailId ==
    opCall.op = "getLinksByEmailId"
       => /\ opCall.req = <<From("links"), Select("*"), EqStr("email_id", opCall.arg)>>
          /\ opCall.resp.kind = "resolve"
                => /\ (opCall.resp.error = {} /\ opCall.resp.data # {})
                         => opCall.out = ReturnRows(Val(opCall.resp.data))
                   /\ (opCall.resp.error = {} /\ opCall.resp.data = {})
                         => opCall.out = ReturnRows(<<>>)
                   /\ opCall.resp.error # {}
                         => /\ opCall.out.kind = "throw"
                            /\ opCall.out.err # {}
                            /\ \A e \in opCall.out.err :
                                  e.dbe /\ e.type = QUERY_ERROR /\ e.orig = opCall.resp.error

C17_Witness ==
    /\ opCall.op = "getLinksByEmailId"
    /\ opCall.resp.kind = "resolve"
    /\ opCall.resp.error # {}
    /\ Val(opCall.resp.error).code = "PGRST116"
    /\ opCall.out.kind = "throw"

\* The calls of the issued request with method m on column col
CallsOn(m, col) == {i \in CallsOf(m) : opCall.req[i].col = col}

\* C19 (as claimed): every non-pagination predicate and the limit cap are
\* issued exactly when their field is present (a text field: present and not
\* empty): processed=false issues eq(processed, false), a present limit,
\* limit = 0 included, issues a cap of limit.
C19_PredicateIffPresent ==
    /\ (opCall.op = "queryEmails" /\ opCall.executed)
          => LET f == opCall.arg IN
             /\ CallsOn("ilike", "sender") # {} <=> TruthyStr(f.sender)
             /\ TruthyStr(f.sender) => HasCall(Ilike("sender", "%" \o Val(f.sender) \o "%"))
             /\ CallsOn("ilike", "subject") # {} <=> TruthyStr(f.subject)
             /\ CallsOf("gte") # {} <=> f.dateFrom # {}
             /\ CallsOf("lte") # {} <=> f.dateTo # {}
             /\ CallsOf("eq") # {} <=> f.processed # {}
             /\ f.processed # {} => HasCall(EqBool("processed", Val(f.processed)))
             /\ CallsOf("limit") # {} <=> f.limit # {}
             /\ f.limit # {} => HasCall(Limit(Val(f.limit)))
    /\ (opCall.op = "queryLinks" /\ opCall.executed)
          => LET f == opCall.arg IN
             /\ CallsOn("ilike", "url") # {} <=> TruthyStr(f.url)
             /\ CallsOf("contains") # {} <=> f.categories # {}
             /\ CallsOf("eq") # {} <=> f.emailId # {}
             /\ CallsOf("limit") # {} <=> f.limit # {}
             /\ f.limit # {} => HasCall(Limit(Val(f.limit)))

\* Position of a builder call in the order the specification lists
ClaimedRank(c) ==
    CASE c.m = "from" -> 0
      [] c.m = "select" -> 1
      [] c.m = "ilike" -> IF c.col = "subject" THEN 3 ELSE 2
      [] c.m = "gte" -> 4
      [] c.m = "lte" -> 5
      [] c.m = "eq" -> 6
      [] c.m = "contains" -> 7
      [] c.m = "limit" -> 8
      [] c.m = "range" -> 9

\* Position of a builder call in the order the builders apply
AppliedRank(c) ==
    CASE c.m = "from" -> 0
      [] c.m = "select" -> 1
      [] c.m = "ilike" -> IF c.col = "subject" THEN 3 ELSE 2
      [] c.m = "gte" -> 4
      [] c.m = "lte" -> 5
      [] c.m = "contains" -> 6
      [] c.m = "eq" -> 7
      [] c.m = "limit" -> 8
      [] c.m = "range" -> 9

InOrder(R(_)) ==
    \A i, j \in 1..Len(opCall.req) : i < j => R(opCall.req[i]) < R(opCall.req[j])

\* C20 (as claimed): the present predicates are applied in the order substring
\* match, dateFrom, dateTo, equality (processed / emailId), categories
\* containment, limit, range.
C20_ClaimedOrder == IsQueryMany => InOrder(ClaimedRank)

\* C20 (amended): the present predicates are applied in the order substring
\* match, dateFrom, dateTo, categories containment, equality (processed /
\* emailId), limit, range: for links the containment check precedes the
\* emailId equality, and for both entities limit precedes range.
C20_AppliedOrder == IsQueryMany => InOrder(AppliedRank)

C20_Witness ==
    /\ opCall.op = "queryLinks"
    /\ CallsOf("contains") # {}
    /\ CallsOf("eq") # {}
    /\ CallsOf("limit") # {}
    /\ CallsOf("range") # {}
    /\ CallsOf("ilike") # {}

----------------------------------------------------------------------------
(* Record operations: a store that evaluates the issued request *)

\* The content of the stored rows (the hypothesis of C21)
StoredEmails ==
    <<[sender |-> "Test User <test@a.com>", subject |-> "Re: plan", date |-> -86400000,
       processed |-> TRUE],
      [sender |-> "bob@b.com", subject |-> "Re: plan", date |-> 0, processed |-> FALSE],
      [sender |-> "TESTER@c.com", subject |-> "Hello", date |-> 86400000, processed |-> TRUE],
      [sender |-> "latest@d.com", subject |-> "re: Hello", date |-> 172800000,
       processed |-> FALSE]>>

StoredLinks ==
    <<[url |-> "https://example.com/a", categories |-> {"news", "tech"}, email_id |-> "e1"],
      [url |-> "https://EXAMPLE.com/b", categories |-> {"news"}, email_id |-> "e2"],
      [url |-> "https://other.org", categories |-> {"tech"}, email_id |-> "e1"],
      [url |-> "http://sub.example.com", categories |-> {}, email_id |-> "e1"]>>

StoredTable(name) == IF name = "emails" THEN StoredEmails ELSE StoredLinks

\* value ILIKE pattern, for the values stored and the patterns issued
ILikeMatches ==
    {<<"Test User <test@a.com>", "%test%">>, <<"TESTER@c.com", "%test%">>,
     <<"latest@d.com", "%test%">>,
     <<"Re: plan", "%Re%">>, <<"re: Hello", "%Re%">>,
     <<"https://example.com/a", "%example.com%">>,
     <<"https://EXAMPLE.com/b", "%example.com%">>,
     <<"http://sub.example.com", "%example.com%">>}

\* The timestamp an ISO string denotes
FromISOString(str) ==
    CASE str = "1970-01-01T00:00:00.000Z" -> 0
      [] str = "1970-01-02T00:00:00.000Z" -> 86400000

IsFilterCall(c) == c.m \in {"ilike", "gte", "lte", "eq", "contains"}

\* Whether a stored row satisfies one issued predicate
Satisfies(row, c) ==
    CASE c.m = "ilike" -> <<row[c.col], c.s>> \in ILikeMatches
      [] c.m = "gte" -> row[c.col] >= FromISOString(c.s)
      [] c.m = "lte" -> row[c.col] <= FromISOString(c.s)
      [] c.m = "eq" -> IF c.col = "processed" THEN row[c.col] = c.b ELSE row[c.col] = c.s
      [] c.m = "contains" -> \A i \in 1..Len(c.arr) : c.arr[i] \in row[c.col]
      [] OTHER -> TRUE

\* The store narrows the rows by one predicate after the other, as issued
RECURSIVE Narrowed(_, _, _)
Narrowed(rows, calls, table) ==
    IF calls = <<>> THEN rows
    ELSE LET Keep(r) == Satisfies(table[r], Head(calls))
         IN Narrowed(SelectSeq(rows, Keep), Tail(calls), table)

\* The cap and the window are parameters of the request: limit(n) sets the
\* cap, range(from, to) sets the offset and the cap; a later call overwrites
RECURSIVE Paging(_, _)
Paging(calls, acc) ==
    IF calls = <<>> THEN acc
    ELSE LET c == Head(calls)
             next == IF c.m = "limit" THEN [acc EXCEPT !.cap = {c.n}]
                     ELSE IF c.m = "range"
                          THEN [offset |-> c.n, cap |-> {c.n2 - c.n + 1}]
                          ELSE acc
         IN Paging(Tail(calls), next)

NoPaging == [offset |-> 0, cap |-> {}]

Window(rows, paging) ==
    LET last_ == IF paging.cap = {} \/ paging.offset + Val(paging.cap) > Len(rows)
                 THEN Len(rows)
                 ELSE paging.offset + Val(paging.cap)
    IN SubSeq(rows, paging.offset + 1, last_)

\* What a store that evaluates the request faithfully answers to it
Evaluate(calls) ==
    Window(Narrowed(RowSeq(StoredRows), calls, StoredTable(calls[1].s)),
           Paging(calls, NoPaging))

\* The constraints a request carries, the order of the calls left out
ConstraintSet(calls) ==
    [table |-> calls[1].s,
     filters |-> {calls[i] : i \in {j \in 1..Len(calls) : IsFilterCall(calls[j])}},
     paging |-> Paging(calls, NoPaging)]

\* The stored rows that satisfy every predicate of the request
AllSatisfying(calls) ==
    LET table == StoredTable(calls[1].s)
        Keep(r) == \A i \in 1..Len(calls) : Satisfies(table[r], calls[i])
    IN SelectSeq(RowSeq(StoredRows), Keep)

\* The request with the calls after from/select issued in the order p
Reordered(calls, p) ==
    [i \in 1..Len(calls) |-> IF i <= 2 THEN calls[i] ELSE calls[p[i]]]

\* C21: all predicates conjoin. When the store answers the issued request
\* faithfully, queryMany returns exactly the stored rows that satisfy every
\* issued predicate (within the issued cap and window), and issuing the same
\* calls in any other order gives the same constraint set and the same rows.
C21_PredicatesConjoin ==
    (/\ IsQueryMany
     /\ opCall.executed
     /\ opCall.resp = Resolve({Evaluate(opCall.req)}, {}))
       => /\ opCall.out = ReturnRows(Window(AllSatisfying(opCall.req),
                                            Paging(opCall.req, NoPaging)))
          /\ \A p \in Permutations(3..Len(opCall.req)) :
                /\ ConstraintSet(Reordered(opCall.req, p)) = ConstraintSet(opCall.req)
                /\ Evaluate(Reordered(opCall.req, p)) = opCall.out.rows

C21_Witness ==
    /\ opCall.op = "queryEmails"
    /\ opCall.resp = Resolve({Evaluate(opCall.req)}, {})
    /\ Cardinality(CallsOf("ilike")) = 2
    /\ CallsOf("limit") # {}
    /\ CallsOf("range") # {}
    /\ opCall.out.kind = "return"
    /\ Len(opCall.out.rows) = 1

\* C22: only getEmailById converts the no-row code PGRST116 into a result
\* (null). Reported to createEmail, createLink, queryEmails, queryLinks or
\* getLinksByEmailId the same code raises a DatabaseError of type QUERY_ERROR,
\* and so does every other error code reported to getEmailById.
C22_NoRowOnlyForGetById ==
    (/\ opCall.op # "none"
     /\ opCall.executed
     /\ opCall.resp.kind = "resolve"
     /\ opCall.resp.error # {})
       => LET noRow == Val(opCall.resp.error).code = "PGRST116" IN
          /\ opCall.out.kind = "return" <=> (opCall.op = "getEmailById" /\ noRow)
          /\ opCall.out.kind = "return" => opCall.out = ReturnRow({})
          /\ opCall.out.kind = "throw"
                => /\ opCall.out.err # {}
                   /\ \A e \in opCall.out.err :
                         e.dbe /\ e.type = QUERY_ERROR /\ e.orig = opCall.resp.error

C22_Witness ==
    /\ opCall.op = "createLink"
    /\ opCall.resp.kind = "resolve"
    /\ opCall.resp.error # {}
    /\ Val(opCall.resp.error).code = "PGRST116"
    /\ opCall.out.kind = "throw"
    /\ \A e \in opCall.out.err : e.type = QUERY_ERROR

----------------------------------------------------------------------------
(* Connection manager and record operations: properties *)

\* C23: whatever the sequence of connection-manager and record-operation
\* calls, no error of type VALIDATION_ERROR or NOT_FOUND is raised: what the
\* connection manager raises is a DatabaseError of type CONNECTION_ERROR and
\* what a record operation raises is a DatabaseError of type QUERY_ERROR.
C23_OnlyConnectionAndQueryErrors ==
    /\ \A e \in last.out.err :
          e.dbe /\ e.type = CONNECTION_ERROR /\ e.type \notin {VALIDATION_ERROR, NOT_FOUND}
    /\ opCall # NoOpCall
          => \A e \in opCall.out.err :
                e.dbe /\ e.type = QUERY_ERROR /\ e.type \notin {VALIDATION_ERROR, NOT_FOUND}

C23_Witness ==
    /\ last.op = "getClient"
    /\ last.wasClosed
    /\ last.out.kind = "throw"
    /\ opCall # NoOpCall
    /\ opCall.op = "getEmailById"
    /\ opCall.out.kind = "throw"

----------------------------------------------------------------------------
(* Record operations in flight: properties *)

Started == 1..Len(inflight)

Settled == {k \in Started : inflight[k].st = "done"}

\* C24: concurrent record operations on the shared handle need no locking. In
\* every interleaving, two settled calls of the same operation with the same
\* argument and the same store reply have issued the same request and settled
\* with the same result or error, whatever the other calls in flight did: the
\* result of the call made on its own, from its argument and its reply; and
\* no step of an operation modifies the handle, the manager or another call.
C24_NoInterference ==
    /\ [](\A j, k \in Settled :
             (/\ inflight[j].op = inflight[k].op
              /\ inflight[j].arg = inflight[k].arg
              /\ inflight[j].resp = inflight[k].resp)
                => /\ inflight[j].out = inflight[k].out
                   /\ inflight[j].req = inflight[k].req)
    /\ [](\A k \in Settled :
             /\ inflight[k].req = RequestOf(inflight[k].op, inflight[k].arg).calls
             /\ inflight[k].out = {OutcomeOf(inflight[k], inflight[k].resp)})
    /\ [][/\ UNCHANGED <<envUrl, envKey, client, created, ctorCalls, last, span, instHandles>>
          /\ \A j, k \in Started :
                (j # k /\ inflight'[k] # inflight[k]) => inflight'[j] = inflight[j]
          /\ \A k \in Started : inflight'[k].handle = inflight[k].handle
         ]_vars

C24_Witness ==
    /\ Len(inflight) = 2
    /\ inflight[1].st = "awaiting"
    /\ inflight[2].st = "done"
    /\ inflight[1].op = inflight[2].op
    /\ inflight[1].handle = inflight[2].handle
    /\ inflight[1].handle = client

\* C25 (as claimed): every started record operation issues exactly one request
\* to the store.
C25_ExactlyOneRequest ==
    \A k \in Started : inflight[k].requests = 1

\* C25 (amended): every started record operation issues at most one request
\* to the store (exactly one unless building the request throws: then none is
\* issued); once the store has replied, or the build has thrown, the call
\* eventually settles with a returned value or a raised DatabaseError; a
\* failure settles the call on the first reply and no second request follows.
C25_AtMostOneRequest ==
    /\ [](\A k \in Started :
             /\ inflight[k].requests = (IF inflight[k].thrown = {} THEN 1 ELSE 0)
             /\ inflight[k].st = "done"
                   => \A o \in inflight[k].out :
                         /\ o.kind \in {"return", "throw"}
                         /\ \A e \in o.err : e.dbe /\ e.type \in DatabaseErrorType
                         /\ (inflight[k].thrown # {}
                               \/ \E r \in inflight[k].resp : r.kind = "reject" \/ r.error # {})
                               => o.kind = "throw"
                                     \/ (inflight[k].op = "getEmailById" /\ o = ReturnRow({})))
    /\ [][\A k \in Started :
             /\ inflight'[k].requests = inflight[k].requests
             /\ inflight[k].st = "resumable" => inflight'[k].st \in {"resumable", "done"}
             /\ inflight[k].st = "done" => inflight'[k] = inflight[k]
         ]_vars
    /\ \A k \in 1..MaxCalls :
          (k \in Started /\ inflight[k].st = "resumable")
             ~> (k \in Started /\ inflight[k].st = "done")

C25_Witness ==
    /\ Len(inflight) = 2
    /\ inflight[1].thrown # {}
    /\ inflight[1].st = "done"
    /\ inflight[2].st = "done"
    /\ inflight[2].requests = 1
    /\ \E r \in inflight[2].resp : r.kind = "resolve" /\ r.error # {}
    /\ \E o \in inflight[2].out : o.kind = "throw"

----------------------------------------------------------------------------
(* Operations instances: properties *)

\* C15 (as claimed): at most one live handle: the handle the manager holds and
\* the handles the operations instances use are one and the same handle.
C15_AtMostOneLiveHandle ==
    Cardinality(instHandles \cup ({client} \ {NoClient})) <= 1

\* C16 (as claimed): operations do not retain a handle: an operation run while
\* the manager is READY runs against the manager's current handle.
C16_OperationsUseCurrentHandle ==
    (used.handle # NoClient /\ used.mgr # NoClient) => used.handle = used.mgr

\* C18: the manager is UNINITIALIZED (no client) or READY (one client) and
\* changes state in two ways only: a successful initialize() takes it from
\* UNINITIALIZED to READY and closeConnection() from READY to UNINITIALIZED;
\* getClient(), a failed initialize(), initialize() in READY and every
\* operation run with its own client leave the state and the memoized handle
\* as they are.
C18_OnlyTwoTransitions ==
    [][/\ (client = NoClient /\ client' # NoClient)
             => /\ last'.op = "initialize"
                /\ last'.pre = NoClient
                /\ last'.out = Returned(client')
       /\ (client # NoClient /\ client' = NoClient)
             => last'.op = "closeConnection" /\ last'.pre = client
       /\ (client # NoClient /\ client' # NoClient) => client' = client
       /\ getClient => UNCHANGED <<client, created, ctorCalls>>
       /\ (initialize /\ last'.out.kind = "throw") => UNCHANGED <<client, created>>
       /\ (initialize /\ client # NoClient) => UNCHANGED <<client, created, ctorCalls>>
       /\ instanceOperation => UNCHANGED <<client, created, ctorCalls, last, span>>
       /\ CreateOperationsExplicit => UNCHANGED <<client, created, ctorCalls, last, span>>
      ]_vars

C18_Witness ==
    /\ last.op = "closeConnection"
    /\ last.pre # NoClient
    /\ last.prev = "getClient:ok"
    /\ used.handle # NoClient
    /\ used.mgr = used.handle

====
